---- MODULE Spec2Model ----
(***************************************************************************)
(* The Krylov solver entry points of the Jax backend of TensorNetwork      *)
(* (src/tensornetwork/backends/jax/jax_backend.py): eigs, eigsh_lanczos    *)
(* and gmres, together with the two module-level caches _CACHED_MATVECS    *)
(* and _CACHED_FUNCTIONS they share.                                       *)
(*                                                                         *)
(* One step of the model is one whole solver call.  An optional Python     *)
(* value is a sequence: <<>> is None, <<v>> is the supplied value v.       *)
(***************************************************************************)
EXTENDS Integers, Sequences, FiniteSets, TLC

VARIABLES
  CACHED_MATVECS,    \* _CACHED_MATVECS: operator object -> stored wrapper
  CACHED_FUNCTIONS,  \* _CACHED_FUNCTIONS: algorithm name -> iteration routine
  compiles,          \* per operator object, the wrappers made for it so far
  built,             \* per algorithm name, the routines built for it so far
  pending,           \* the arguments of the call about to be made, or None
  last,              \* the most recent call: arguments, outcome, routine call
  threads            \* per thread, the line of the solver call it is at

vars ==
  <<CACHED_MATVECS, CACHED_FUNCTIONS, compiles, built, pending, last, threads>>

----------------------------------------------------------------------------
(* Bounds of the model.                                                    *)

NumOps == 2        \* operator function objects 1..NumOps
MaxDim == 2        \* largest extent of a tensor axis
MaxKrylov == 3     \* largest num_krylov_vecs / num_krylov_vectors tried
MaxEig == 2        \* largest numeig tried
MaxIter == 1       \* largest maxiter tried
NumThreads == 2    \* threads calling the solvers at the same time
MaxSeed == 2       \* largest seed given to, or drawn by, randn and random_uniform

----------------------------------------------------------------------------
(* Python values.                                                          *)

None == <<>>
Some(x) == <<x>>
IsNone(o) == o = <<>>
Opt(S) == {None} \cup {Some(x) : x \in S}

\* Operator function objects.  The object is its identity; Defn gives the
\* text of its definition: objects 1 and 2 are two `def A(H, x)` of the same
\* text, as in the second example of the eigs docstring.
Ops == 1..NumOps
Defn(A) == (A + 1) \div 2

AlgNames == {"imp_arnoldi", "eigsh_lanczos", "gmres_f"}

\* The key a solver uses in _CACHED_FUNCTIONS.
AlgOf(solver) ==
  CASE solver = "eigs" -> "imp_arnoldi"
    [] solver = "eigsh_lanczos" -> "eigsh_lanczos"
    [] solver = "gmres" -> "gmres_f"

Dtypes == {"float32", "float64"}
Shapes == {<<0>>, <<1, MaxDim>>}
Kinds == {"jax", "numpy"}

\* An array: its class (jnp.ndarray or not), shape, dtype and contents.
Tensor(kind, shape, dtype, data) ==
  [kind |-> kind, shape |-> shape, dtype |-> dtype, data |-> data]

UserTensors ==
  {Tensor(k, s, d, "user") : k \in Kinds, s \in Shapes, d \in Dtypes}
RightHandSides ==
  {Tensor("jax", s, d, "user") : s \in Shapes, d \in Dtypes}

RECURSIVE Size(_)
Size(shape) == IF shape = <<>> THEN 1 ELSE Head(shape) * Size(Tail(shape))

isinstance_ndarray(t) == t.kind = "jax"

zeros(shape, dtype) ==
  Tensor("jax", shape, IF IsNone(dtype) THEN "float64" ELSE dtype[1], "zeros")

\* randn without a seed: a fresh random jax array of the given shape; a dtype
\* of None is float64.
randn(shape, dtype) ==
  Tensor("jax", shape, IF IsNone(dtype) THEN "float64" ELSE dtype[1], "randn")

\* Seeds a caller can give, and seeds np.random.randint(0, 2**63) can draw
\* (its range cut down to 0..MaxSeed).
Seeds == 0..MaxSeed
RandDtypes == {"float64", "complex128"}
Boundaries == {<<0, 1>>, <<-1, 1>>}

\* `if not seed: seed = np.random.randint(0, 2**63)`: Python's `not seed` is
\* true of None and of 0.  drawn is what randint returns if it is called.
seed_used(seed, drawn) ==
  IF IsNone(seed) \/ seed[1] = 0 THEN drawn ELSE seed[1]

\* libjax.random.PRNGKey(seed): a function of the seed alone.
PRNGKey(seed) == [key |-> seed]

\* libjax.random.normal / uniform: the sample is a function of the key, the
\* shape, the dtype and, for uniform, the bounds.
random_normal(key, shape, dtype) ==
  [dist |-> "normal", key |-> key, shape |-> shape, dtype |-> dtype,
   minval |-> None, maxval |-> None]

random_uniform_sample(key, shape, dtype, minval, maxval) ==
  [dist |-> "uniform", key |-> key, shape |-> shape, dtype |-> dtype,
   minval |-> Some(minval), maxval |-> Some(maxval)]

\* JaxBackend.randn with its seed argument: the data is the real part and,
\* for a complex dtype, the imaginary part drawn with PRNGKey(seed + 1).
randn_seeded(shape, dtype, seed, drawn) ==
  LET sd == seed_used(seed, drawn)
      key == PRNGKey(sd)
      dt == IF IsNone(dtype) THEN "float64" ELSE dtype[1]
  IN IF dt = "complex128"
     THEN Tensor("jax", shape, dt,
                 <<random_normal(key, shape, "float64"),
                   random_normal(PRNGKey(sd + 1), shape, "float64")>>)
     ELSE Tensor("jax", shape, dt, <<random_normal(key, shape, "default")>>)

\* JaxBackend.random_uniform.
random_uniform(shape, boundaries, dtype, seed, drawn) ==
  LET sd == seed_used(seed, drawn)
      key == PRNGKey(sd)
      dt == IF IsNone(dtype) THEN "float64" ELSE dtype[1]
      lo == boundaries[1]
      hi == boundaries[2]
  IN IF dt = "complex128"
     THEN Tensor("jax", shape, dt,
                 <<random_uniform_sample(key, shape, "float64", lo, hi),
                   random_uniform_sample(PRNGKey(sd + 1), shape, "float64",
                                         lo, hi)>>)
     ELSE Tensor("jax", shape, dt,
                 <<random_uniform_sample(key, shape, "default", lo, hi)>>)

----------------------------------------------------------------------------
(* The caches.  c is the record of the four cache variables.               *)

Caches ==
  [matvecs |-> CACHED_MATVECS, functions |-> CACHED_FUNCTIONS,
   compiles |-> compiles, built |-> built]

\* libjax.tree_util.Partial(libjax.jit(A)) or libjax.tree_util.Partial(A):
\* the n-th wrapper object made for A.
Partial(A, jitted, n) == [fn |-> A, jitted |-> jitted, serial |-> n]

\* The n-th routine object a factory of jitted_functions made for a name.
Routine(name, n) == [name |-> name, serial |-> n]

StoreMatvec_keep_first(c, A, jitted) ==
  [c EXCEPT !.matvecs = @ @@ (A :> Partial(A, jitted, c.compiles[A] + 1)),
            !.compiles[A] = @ + 1]

StoreMatvec(c, A, jitted) ==
  [c EXCEPT !.matvecs = (A :> Partial(A, jitted, c.compiles[A] + 1)) @@ @,
            !.compiles[A] = @ + 1]

StoreFunction(c, name) ==
  [c EXCEPT !.functions = (name :> Routine(name, c.built[name] + 1)) @@ @,
            !.built[name] = @ + 1]

eigs_matvec_always(c, A) == StoreMatvec(c, A, TRUE)

eigs_matvec(c, A) ==
  IF A \notin DOMAIN c.matvecs THEN StoreMatvec(c, A, TRUE) ELSE c

eigs_function(c) ==
  IF "imp_arnoldi" \notin DOMAIN c.functions
  THEN StoreFunction(c, "imp_arnoldi") ELSE c

eigsh_lanczos_matvec(c, A) ==
  IF A \notin DOMAIN c.matvecs THEN StoreMatvec(c, A, FALSE) ELSE c

eigsh_lanczos_function_rebuild(c) == StoreFunction(c, "eigsh_lanczos")

eigsh_lanczos_function(c) ==
  IF "eigsh_lanczos" \notin DOMAIN c.functions
  THEN StoreFunction(c, "eigsh_lanczos") ELSE c

gmres_matvec_overwrite(c, A) == StoreMatvec(c, A, FALSE)

gmres_matvec(c, A) ==
  IF A \notin DOMAIN c.matvecs THEN StoreMatvec(c, A, FALSE) ELSE c

gmres_function(c) ==
  IF "gmres_f" \notin DOMAIN c.functions
  THEN StoreFunction(c, "gmres_f") ELSE c

----------------------------------------------------------------------------
(* The outcome of a call.                                                  *)

\* A raise leaves the function at once: the caches are as they were.
Raised(c, solver, inp, err) ==
  [c |-> c,
   last |-> [solver |-> solver, inp |-> inp, outcome |-> err,
             invoked |-> FALSE, call |-> None, out |-> None, ret |-> None]]

\* The call reached its iteration routine with the arguments in call.
Returned(c, solver, inp, call, out, ret) ==
  [c |-> c,
   last |-> [solver |-> solver, inp |-> inp, outcome |-> "ok",
             invoked |-> TRUE, call |-> Some(call), out |-> Some(out),
             ret |-> Some(ret)]]

----------------------------------------------------------------------------
(* eigs                                                                    *)

WhichValues == {"LR", "LM", "SI", "LI", "SM", "SR", "LA"}

eigs_raises_strict(inp) ==
  IF inp.which \in {"SI", "LI", "SM", "SR"} THEN "ValueError"
  ELSE IF inp.numeig >= inp.num_krylov_vecs THEN "ValueError"
  ELSE IF IsNone(inp.initial_state) /\ (IsNone(inp.shape) \/ IsNone(inp.dtype))
       THEN "ValueError"
  ELSE IF ~IsNone(inp.initial_state)
          /\ ~isinstance_ndarray(inp.initial_state[1]) THEN "TypeError"
  ELSE "ok"

eigs_raises(inp) ==
  IF inp.which \in {"SI", "LI", "SM", "SR"} THEN "ValueError"
  ELSE IF inp.numeig > inp.num_krylov_vecs THEN "ValueError"
  ELSE IF IsNone(inp.initial_state) /\ (IsNone(inp.shape) \/ IsNone(inp.dtype))
       THEN "ValueError"
  ELSE IF ~IsNone(inp.initial_state)
          /\ ~isinstance_ndarray(inp.initial_state[1]) THEN "TypeError"
  ELSE "ok"

eigs_args_dropped(inp) == <<>>

eigs_args(inp) == IF IsNone(inp.args) THEN <<>> ELSE inp.args[1]

eigs_initial_state(inp) ==
  IF IsNone(inp.initial_state) THEN randn(inp.shape[1], inp.dtype)
  ELSE inp.initial_state[1]

\* The arguments eigs hands to _CACHED_FUNCTIONS["imp_arnoldi"].
eigs_call(c, inp) ==
  [routine |-> c.functions["imp_arnoldi"], matvec |-> c.matvecs[inp.A],
   args |-> eigs_args(inp), initial_state |-> eigs_initial_state(inp),
   num_krylov_vecs |-> inp.num_krylov_vecs, numeig |-> inp.numeig,
   which |-> inp.which, tol |-> inp.tol, maxiter |-> inp.maxiter]

eigs_body_register_first(c, inp) ==
  LET err == eigs_raises(inp)
      c1 == eigs_matvec(c, inp.A)
      c2 == eigs_function(c1)
  IN IF err # "ok" THEN Raised(c1, "eigs", inp, err)
     ELSE Returned(c2, "eigs", inp, eigs_call(c2, inp),
                   "eigenpairs", "eigenpairs")

eigs_body(c, inp) ==
  LET err == eigs_raises(inp)
      c2 == eigs_function(eigs_matvec(c, inp.A))
  IN IF err # "ok" THEN Raised(c, "eigs", inp, err)
     ELSE Returned(c2, "eigs", inp, eigs_call(c2, inp),
                   "eigenpairs", "eigenpairs")

----------------------------------------------------------------------------
(* eigsh_lanczos                                                           *)

eigsh_lanczos_raises_no_reorth(inp) ==
  IF inp.num_krylov_vecs < inp.numeig THEN "ValueError"
  ELSE IF IsNone(inp.initial_state) /\ (IsNone(inp.shape) \/ IsNone(inp.dtype))
       THEN "ValueError"
  ELSE IF ~IsNone(inp.initial_state)
          /\ ~isinstance_ndarray(inp.initial_state[1]) THEN "TypeError"
  ELSE "ok"

eigsh_lanczos_raises(inp) ==
  IF inp.num_krylov_vecs < inp.numeig THEN "ValueError"
  ELSE IF inp.numeig > 1 /\ ~inp.reorthogonalize THEN "ValueError"
  ELSE IF IsNone(inp.initial_state) /\ (IsNone(inp.shape) \/ IsNone(inp.dtype))
       THEN "ValueError"
  ELSE IF ~IsNone(inp.initial_state)
          /\ ~isinstance_ndarray(inp.initial_state[1]) THEN "TypeError"
  ELSE "ok"

eigsh_lanczos_call_tol_for_delta(c, inp) ==
  [routine |-> c.functions["eigsh_lanczos"], matvec |-> c.matvecs[inp.A],
   args |-> eigs_args(inp), initial_state |-> eigs_initial_state(inp),
   num_krylov_vecs |-> inp.num_krylov_vecs, numeig |-> inp.numeig,
   delta |-> inp.tol, reorthogonalize |-> inp.reorthogonalize]

\* The arguments eigsh_lanczos hands to _CACHED_FUNCTIONS["eigsh_lanczos"].
eigsh_lanczos_call(c, inp) ==
  [routine |-> c.functions["eigsh_lanczos"], matvec |-> c.matvecs[inp.A],
   args |-> eigs_args(inp), initial_state |-> eigs_initial_state(inp),
   num_krylov_vecs |-> inp.num_krylov_vecs, numeig |-> inp.numeig,
   delta |-> inp.delta, reorthogonalize |-> inp.reorthogonalize]

eigsh_lanczos_body(c, inp) ==
  LET err == eigsh_lanczos_raises(inp)
      c2 == eigsh_lanczos_function(eigsh_lanczos_matvec(c, inp.A))
  IN IF err # "ok" THEN Raised(c, "eigsh_lanczos", inp, err)
     ELSE Returned(c2, "eigsh_lanczos", inp, eigsh_lanczos_call(c2, inp),
                   "eigenpairs", "eigenpairs")

----------------------------------------------------------------------------
(* gmres                                                                   *)

gmres_num_krylov_vectors(inp) ==
  IF IsNone(inp.num_krylov_vectors) THEN Size(inp.b.shape)
  ELSE inp.num_krylov_vectors[1]

gmres_atol_zero(inp) == IF IsNone(inp.atol) THEN 0 ELSE inp.atol[1]

gmres_atol(inp) == IF IsNone(inp.atol) THEN inp.tol ELSE inp.atol[1]

gmres_x0(inp) ==
  IF IsNone(inp.x0) THEN zeros(inp.b.shape, Some(inp.b.dtype)) ELSE inp.x0[1]

gmres_raises_zero_krylov(inp) ==
  IF ~IsNone(inp.x0) /\ inp.x0[1].shape # inp.b.shape THEN "ValueError"
  ELSE IF ~IsNone(inp.x0) /\ inp.x0[1].dtype # inp.b.dtype THEN "ValueError"
  ELSE IF gmres_num_krylov_vectors(inp) < 0
          \/ gmres_num_krylov_vectors(inp) > Size(inp.b.shape)
       THEN "ValueError"
  ELSE IF inp.tol < 0 THEN "ValueError"
  ELSE IF gmres_atol(inp) < 0 THEN "ValueError"
  ELSE IF ~IsNone(inp.M) THEN "NotImplementedError"
  ELSE IF ~IsNone(inp.A_kwargs) THEN "NotImplementedError"
  ELSE "ok"

gmres_raises_no_dtype(inp) ==
  IF ~IsNone(inp.x0) /\ inp.x0[1].shape # inp.b.shape THEN "ValueError"
  ELSE IF gmres_num_krylov_vectors(inp) <= 0
          \/ gmres_num_krylov_vectors(inp) > Size(inp.b.shape)
       THEN "ValueError"
  ELSE IF inp.tol < 0 THEN "ValueError"
  ELSE IF gmres_atol(inp) < 0 THEN "ValueError"
  ELSE IF ~IsNone(inp.M) THEN "NotImplementedError"
  ELSE IF ~IsNone(inp.A_kwargs) THEN "NotImplementedError"
  ELSE "ok"

gmres_raises(inp) ==
  IF ~IsNone(inp.x0) /\ inp.x0[1].shape # inp.b.shape THEN "ValueError"
  ELSE IF ~IsNone(inp.x0) /\ inp.x0[1].dtype # inp.b.dtype THEN "ValueError"
  ELSE IF gmres_num_krylov_vectors(inp) <= 0
          \/ gmres_num_krylov_vectors(inp) > Size(inp.b.shape)
       THEN "ValueError"
  ELSE IF inp.tol < 0 THEN "ValueError"
  ELSE IF gmres_atol(inp) < 0 THEN "ValueError"
  ELSE IF ~IsNone(inp.M) THEN "NotImplementedError"
  ELSE IF ~IsNone(inp.A_kwargs) THEN "NotImplementedError"
  ELSE "ok"

\* What the routine built by jitted_functions.gmres_wrapper can return for
\* n_iter and converged: a number of restarts within maxiter and a flag.
gmres_f_outcomes(maxiter) ==
  {[n_iter |-> n, converged |-> cv] : n \in 0..maxiter, cv \in BOOLEAN}

gmres_info(out) == IF out.converged THEN 0 ELSE out.n_iter

\* The arguments gmres hands to _CACHED_FUNCTIONS["gmres_f"].
gmres_call(c, inp) ==
  [routine |-> c.functions["gmres_f"], matvec |-> c.matvecs[inp.A],
   args |-> IF IsNone(inp.A_args) THEN <<>> ELSE inp.A_args[1],
   b |-> inp.b, x0 |-> gmres_x0(inp), tol |-> inp.tol,
   atol |-> gmres_atol(inp),
   num_krylov_vectors |-> gmres_num_krylov_vectors(inp),
   maxiter |-> inp.maxiter]

gmres_body(c, inp, out) ==
  LET err == gmres_raises(inp)
      c2 == gmres_function(gmres_matvec(c, inp.A))
  IN IF err # "ok" THEN Raised(c, "gmres", inp, err)
     ELSE Returned(c2, "gmres", inp, gmres_call(c2, inp), out,
                   [x |-> "x", info |-> gmres_info(out)])

----------------------------------------------------------------------------
(* Arguments of the calls.                                                 *)

EigsInput(A, args, initial_state, shape, dtype, num_krylov_vecs, numeig, tol, which, maxiter) ==
  [A |-> A, args |-> args, initial_state |-> initial_state, shape |-> shape,
   dtype |-> dtype, num_krylov_vecs |-> num_krylov_vecs, numeig |-> numeig,
   tol |-> tol, which |-> which, maxiter |-> maxiter]

LanczosInput(A, args, initial_state, shape, dtype, num_krylov_vecs, numeig, tol, delta, ndiag, reorthogonalize) ==
  [A |-> A, args |-> args, initial_state |-> initial_state, shape |-> shape,
   dtype |-> dtype, num_krylov_vecs |-> num_krylov_vecs, numeig |-> numeig,
   tol |-> tol, delta |-> delta, ndiag |-> ndiag,
   reorthogonalize |-> reorthogonalize]

GmresInput(A, b, A_args, A_kwargs, x0, tol, atol, num_krylov_vectors, maxiter, M) ==
  [A |-> A, b |-> b, A_args |-> A_args, A_kwargs |-> A_kwargs, x0 |-> x0,
   tol |-> tol, atol |-> atol, num_krylov_vectors |-> num_krylov_vectors,
   maxiter |-> maxiter, M |-> M]

ArgLists == {None, Some(<<1>>)}
Vec == Tensor("jax", <<MaxDim>>, "float64", "user")
InitialStates == {None, Some(Vec),
                  Some(Tensor("numpy", <<MaxDim>>, "float64", "user"))}

\* The calls of a session: a few of each solver, one or more for every way
\* the call can end.
EigsCalls ==
  {EigsInput(A, None, i, sd[1], sd[2], 1, numeig, 0, which, 1) :
     A \in Ops, i \in InitialStates,
     sd \in {<<None, None>>, <<Some(<<MaxDim>>), Some("float64")>>},
     numeig \in 1..2, which \in {"LR", "SM"}}

LanczosCalls ==
  {LanczosInput(A, None, i, Some(<<MaxDim>>), None, 2, numeig, 0, 0, 10, r) :
     A \in Ops, i \in InitialStates, numeig \in 1..2, r \in BOOLEAN}

GmresCalls ==
  {GmresInput(A, Vec, None, kw, x0, 0, None, None, 1, M) :
     A \in Ops, kw \in Opt({"kwargs"}),
     x0 \in {None, Some(Vec),
             Some(Tensor("jax", <<1, MaxDim>>, "float64", "user"))},
     M \in Opt({"M"})}

\* The arguments of one call, every parameter varied.
EigsArgs ==
  {EigsInput(A, args, i, s, d, nkv, numeig, tol, which, maxiter) :
     A \in Ops, args \in ArgLists, i \in InitialStates,
     s \in Opt({<<MaxDim>>}), d \in Opt({"float64"}), nkv \in 1..MaxKrylov,
     numeig \in 1..MaxEig, tol \in {0, 1}, which \in WhichValues,
     maxiter \in 0..MaxIter}

LanczosArgs ==
  {LanczosInput(A, args, i, s, d, nkv, numeig, tol, 0, ndiag, r) :
     A \in Ops, args \in ArgLists, i \in InitialStates,
     s \in Opt({<<MaxDim>>}), d \in Opt({"float64"}), nkv \in 1..MaxKrylov,
     numeig \in 1..MaxEig, tol \in {0, 1}, ndiag \in {1, 10},
     r \in BOOLEAN}

GmresArgs ==
  {GmresInput(A, b, args, kw, x0, tol, atol, nkv, maxiter, M) :
     A \in Ops, b \in RightHandSides, args \in ArgLists,
     kw \in Opt({"kwargs"}),
     x0 \in Opt(UserTensors), tol \in {-1, 0, 1}, atol \in Opt({-1, 0}),
     nkv \in Opt(0..MaxKrylov), maxiter \in 0..MaxIter, M \in Opt({"M"})}

----------------------------------------------------------------------------
(* The state machine.                                                      *)

Commit(r) ==
  /\ CACHED_MATVECS' = r.c.matvecs
  /\ CACHED_FUNCTIONS' = r.c.functions
  /\ compiles' = r.c.compiles
  /\ built' = r.c.built
  /\ last' = r.last
  /\ UNCHANGED threads

Threads == 1..NumThreads

\* A thread that has not called a solver.
Idle == [pc |-> "idle", solver |-> "none", A |-> 0, overlap |-> FALSE]

EmptyCaches ==
  [matvecs |-> <<>>, functions |-> <<>>,
   compiles |-> [A \in Ops |-> 0], built |-> [n \in AlgNames |-> 0]]

NoCall ==
  [solver |-> "none", inp |-> None, outcome |-> "none", invoked |-> FALSE,
   call |-> None, out |-> None, ret |-> None]

Init ==
  /\ CACHED_MATVECS = EmptyCaches.matvecs
  /\ CACHED_FUNCTIONS = EmptyCaches.functions
  /\ compiles = EmptyCaches.compiles
  /\ built = EmptyCaches.built
  /\ pending = None
  /\ last = NoCall
  /\ threads = [t \in Threads |-> Idle]

eigs ==
  \E inp \in EigsCalls :
    Commit(eigs_body(Caches, inp)) /\ UNCHANGED pending

eigsh_lanczos ==
  \E inp \in LanczosCalls :
    Commit(eigsh_lanczos_body(Caches, inp)) /\ UNCHANGED pending

gmres ==
  \E inp \in GmresCalls : \E out \in gmres_f_outcomes(inp.maxiter) :
    Commit(gmres_body(Caches, inp, out)) /\ UNCHANGED pending

Next == eigs \/ eigsh_lanczos \/ gmres

\* A session of calls made one after the other.
Spec == Init /\ [][Next]_vars

----------------------------------------------------------------------------
(* One call with arbitrary arguments, made in a process whose caches are   *)
(* empty or hold what one earlier call of gmres left.                      *)

WarmCaches ==
  { EmptyCaches,
    gmres_body(EmptyCaches,
      GmresInput(1, Vec, None, None, None, 0, None, None, 1, None),
      [n_iter |-> 0, converged |-> TRUE]).c }

InitArgs ==
  /\ \E c \in WarmCaches :
       /\ CACHED_MATVECS = c.matvecs
       /\ CACHED_FUNCTIONS = c.functions
       /\ compiles = c.compiles
       /\ built = c.built
  /\ \/ \E inp \in EigsArgs :
          pending = Some([solver |-> "eigs", inp |-> inp])
     \/ \E inp \in LanczosArgs :
          pending = Some([solver |-> "eigsh_lanczos", inp |-> inp])
     \/ \E inp \in GmresArgs :
          pending = Some([solver |-> "gmres", inp |-> inp])
  /\ last = NoCall
  /\ threads = [t \in Threads |-> Idle]

eigs_pending ==
  /\ ~IsNone(pending) /\ pending[1].solver = "eigs"
  /\ Commit(eigs_body(Caches, pending[1].inp))
  /\ pending' = None

eigsh_lanczos_pending ==
  /\ ~IsNone(pending) /\ pending[1].solver = "eigsh_lanczos"
  /\ Commit(eigsh_lanczos_body(Caches, pending[1].inp))
  /\ pending' = None

gmres_pending ==
  /\ ~IsNone(pending) /\ pending[1].solver = "gmres"
  /\ \E out \in gmres_f_outcomes(pending[1].inp.maxiter) :
       Commit(gmres_body(Caches, pending[1].inp, out))
  /\ pending' = None

NextArgs == eigs_pending \/ eigsh_lanczos_pending \/ gmres_pending

SpecArgs == InitArgs /\ [][NextArgs]_vars

----------------------------------------------------------------------------
(* Solver calls made by several threads with nothing to keep them apart:   *)
(* a step is one line of the cache code of a call (for eigs, lines 329 to  *)
(* 336), and the threads take their steps in any order.  The arguments of  *)
(* these calls are valid, so every call gets to the cache code.            *)

Running(t) == threads[t].pc \notin {"idle", "done"}

\* A thread enters a solver; it overlaps every call that is under way, and
\* every call under way overlaps it.
thread_enter(t) ==
  /\ threads[t].pc = "idle"
  /\ \E solver \in {"eigs", "eigsh_lanczos", "gmres"}, A \in Ops :
       threads' =
         [u \in Threads |->
            IF u = t
            THEN [pc |-> "test_matvec", solver |-> solver, A |-> A,
                  overlap |-> \E v \in Threads \ {t} : Running(v)]
            ELSE IF Running(u) THEN [threads[u] EXCEPT !.overlap = TRUE]
            ELSE threads[u]]
  /\ UNCHANGED <<CACHED_MATVECS, CACHED_FUNCTIONS, compiles, built,
                 pending, last>>

\* if A not in _CACHED_MATVECS:
thread_test_matvec(t) ==
  /\ threads[t].pc = "test_matvec"
  /\ threads' =
       [threads EXCEPT ![t].pc =
          IF threads[t].A \notin DOMAIN CACHED_MATVECS
          THEN "store_matvec" ELSE "test_function"]
  /\ UNCHANGED <<CACHED_MATVECS, CACHED_FUNCTIONS, compiles, built,
                 pending, last>>

\* _CACHED_MATVECS[A] = libjax.tree_util.Partial(...)
thread_store_matvec(t) ==
  /\ threads[t].pc = "store_matvec"
  /\ LET c == StoreMatvec(Caches, threads[t].A, threads[t].solver = "eigs")
     IN /\ CACHED_MATVECS' = c.matvecs
        /\ compiles' = c.compiles
  /\ threads' = [threads EXCEPT ![t].pc = "test_function"]
  /\ UNCHANGED <<CACHED_FUNCTIONS, built, pending, last>>

\* if "imp_arnoldi" not in _CACHED_FUNCTIONS:
thread_test_function(t) ==
  /\ threads[t].pc = "test_function"
  /\ threads' =
       [threads EXCEPT ![t].pc =
          IF AlgOf(threads[t].solver) \notin DOMAIN CACHED_FUNCTIONS
          THEN "store_function" ELSE "call"]
  /\ UNCHANGED <<CACHED_MATVECS, CACHED_FUNCTIONS, compiles, built,
                 pending, last>>

\* _CACHED_FUNCTIONS["imp_arnoldi"] = imp_arnoldi
thread_store_function(t) ==
  /\ threads[t].pc = "store_function"
  /\ LET c == StoreFunction(Caches, AlgOf(threads[t].solver))
     IN /\ CACHED_FUNCTIONS' = c.functions
        /\ built' = c.built
  /\ threads' = [threads EXCEPT ![t].pc = "call"]
  /\ UNCHANGED <<CACHED_MATVECS, compiles, pending, last>>

\* return _CACHED_FUNCTIONS["imp_arnoldi"](_CACHED_MATVECS[A], ...)
thread_call(t) ==
  /\ threads[t].pc = "call"
  /\ threads' = [threads EXCEPT ![t].pc = "done"]
  /\ UNCHANGED <<CACHED_MATVECS, CACHED_FUNCTIONS, compiles, built,
                 pending, last>>

NextThreads ==
  \E t \in Threads :
    \/ thread_enter(t)
    \/ thread_test_matvec(t)
    \/ thread_store_matvec(t)
    \/ thread_test_function(t)
    \/ thread_store_function(t)
    \/ thread_call(t)

SpecThreads == Init /\ [][NextThreads]_vars

----------------------------------------------------------------------------
(* randn and random_uniform of tensornetwork.linalg.initialization, which  *)
(* hand shape, dtype, seed and boundaries to the backend method unchanged: *)
(* the same call is made twice and both tensors are kept.                  *)

RandnArgs ==
  { [shape |-> sh, dtype |-> dt, seed |-> sd, boundaries |-> None] :
      sh \in Shapes, dt \in Opt(RandDtypes), sd \in Opt(Seeds) }

RandomUniformArgs ==
  { [shape |-> sh, dtype |-> dt, seed |-> sd, boundaries |-> Some(bd)] :
      sh \in Shapes, dt \in Opt(RandDtypes), sd \in Opt(Seeds),
      bd \in Boundaries }

InitRandom ==
  /\ CACHED_MATVECS = EmptyCaches.matvecs
  /\ CACHED_FUNCTIONS = EmptyCaches.functions
  /\ compiles = EmptyCaches.compiles
  /\ built = EmptyCaches.built
  /\ \/ \E inp \in RandnArgs :
          pending = Some([solver |-> "randn", inp |-> inp])
     \/ \E inp \in RandomUniformArgs :
          pending = Some([solver |-> "random_uniform", inp |-> inp])
  /\ last = [solver |-> "none", inp |-> None, results |-> <<>>]
  /\ threads = [t \in Threads |-> Idle]

randn_pending ==
  /\ pending # None
  /\ pending[1].solver = "randn"
  /\ Len(last.results) < 2
  /\ \E drawn \in Seeds :
       LET inp == pending[1].inp
       IN last' = [solver |-> "randn", inp |-> inp,
                   results |-> Append(last.results,
                                 randn_seeded(inp.shape, inp.dtype, inp.seed,
                                              drawn))]
  /\ UNCHANGED <<CACHED_MATVECS, CACHED_FUNCTIONS, compiles, built,
                 pending, threads>>

random_uniform_pending ==
  /\ pending # None
  /\ pending[1].solver = "random_uniform"
  /\ Len(last.results) < 2
  /\ \E drawn \in Seeds :
       LET inp == pending[1].inp
       IN last' = [solver |-> "random_uniform", inp |-> inp,
                   results |-> Append(last.results,
                                 random_uniform(inp.shape, inp.boundaries[1],
                                                inp.dtype, inp.seed, drawn))]
  /\ UNCHANGED <<CACHED_MATVECS, CACHED_FUNCTIONS, compiles, built,
                 pending, threads>>

NextRandom == randn_pending \/ random_uniform_pending

SpecRandom == InitRandom /\ [][NextRandom]_vars

----------------------------------------------------------------------------
(* Properties.                                                             *)

Errors == {"ValueError", "NotImplementedError", "TypeError"}

\* C1: in a call that reaches the caches, an operator object that is already
\* a key of _CACHED_MATVECS makes no new wrapper and the stored wrapper is
\* the one handed on (hit); an operator object that is not a key, whether or
\* not an object of the same definition is one, gets one new wrapper, stored
\* under it and distinct from every wrapper stored before (miss).
C1_HitReusesMissAdds ==
  [][last'.outcome = "ok" =>
       LET A == last'.inp.A IN
       IF A \in DOMAIN CACHED_MATVECS
       THEN /\ compiles' = compiles
            /\ CACHED_MATVECS' = CACHED_MATVECS
            /\ last'.call[1].matvec = CACHED_MATVECS[A]
       ELSE /\ compiles' = [compiles EXCEPT ![A] = @ + 1]
            /\ DOMAIN CACHED_MATVECS' = DOMAIN CACHED_MATVECS \cup {A}
            /\ last'.call[1].matvec = CACHED_MATVECS'[A]
            /\ \A B \in DOMAIN CACHED_MATVECS :
                 CACHED_MATVECS'[A] # CACHED_MATVECS[B]]_vars

\* Two operator objects of the same definition are both registered, each
\* compiled once, and eigs has just reused a wrapper another solver stored.
C1_Witness ==
  /\ {1, 2} \subseteq DOMAIN CACHED_MATVECS
  /\ Defn(1) = Defn(2)
  /\ CACHED_MATVECS[1] # CACHED_MATVECS[2]
  /\ compiles[1] = 1 /\ compiles[2] = 1
  /\ last.solver = "eigs" /\ last.outcome = "ok"
  /\ ~last.call[1].matvec.jitted

\* C2: every entry of _CACHED_MATVECS is the jitted form of its operator,
\* whichever solver stored it, so the handle a solver hands to its routine
\* is the jitted one whatever solver was first called with the operator.
C2_EntriesAreJitted ==
  /\ \A A \in DOMAIN CACHED_MATVECS : CACHED_MATVECS[A].jitted
  /\ last.outcome = "ok" => last.call[1].matvec.jitted

\* C3: a key present in either cache stays present, with the same stored
\* object, across every later call, returning or raising.
C3_NeverEvicted ==
  [][/\ \A A \in DOMAIN CACHED_MATVECS :
          /\ A \in DOMAIN CACHED_MATVECS'
          /\ CACHED_MATVECS'[A] = CACHED_MATVECS[A]
     /\ \A n \in DOMAIN CACHED_FUNCTIONS :
          /\ n \in DOMAIN CACHED_FUNCTIONS'
          /\ CACHED_FUNCTIONS'[n] = CACHED_FUNCTIONS[n]]_vars

\* Both caches are full and the call just made raised.
C3_Witness ==
  /\ DOMAIN CACHED_MATVECS = Ops
  /\ DOMAIN CACHED_FUNCTIONS = AlgNames
  /\ last.outcome = "TypeError"

\* C4: _CACHED_FUNCTIONS is keyed by algorithm names only and
\* _CACHED_MATVECS by operator objects only; each routine is built at most
\* once, by the first call of its solver that passes validation; a call adds
\* no key but its own solver's, and hands on the one stored routine
\* whatever the operator is.
C4_OneRoutinePerAlgorithm ==
  [][/\ DOMAIN CACHED_FUNCTIONS' \subseteq AlgNames
     /\ DOMAIN CACHED_MATVECS' \subseteq Ops
     /\ \A n \in AlgNames : built'[n] <= 1
     /\ IF last'.outcome = "ok"
        THEN LET name == AlgOf(last'.solver) IN
             /\ DOMAIN CACHED_FUNCTIONS' = DOMAIN CACHED_FUNCTIONS \cup {name}
             /\ built'[name] = 1
             /\ \A n \in AlgNames \ {name} : built'[n] = built[n]
             /\ last'.call[1].routine = CACHED_FUNCTIONS'[name]
        ELSE CACHED_FUNCTIONS' = CACHED_FUNCTIONS /\ built' = built]_vars

\* All three routines are built, every operator is registered, and the call
\* just made used the first routine built for its algorithm.
C4_Witness ==
  /\ \A n \in AlgNames : built[n] = 1
  /\ DOMAIN CACHED_MATVECS = Ops
  /\ last.outcome = "ok"
  /\ last.call[1].routine.serial = 1

\* C5: when gmres returns, info is nonzero exactly when the routine reported
\* no convergence.
C5_InfoNonzeroIffNotConverged ==
  (last.solver = "gmres" /\ last.outcome = "ok") =>
    ((last.ret[1].info # 0) <=> ~last.out[1].converged)

\* C6: eigs raises ValueError, without reaching the caches or the routine,
\* for every which other than 'LR' and 'LM'.
C6_WhichOutsideLRLMRaises ==
  (last.solver = "eigs" /\ last.inp.which \notin {"LR", "LM"}) =>
    (last.outcome = "ValueError" /\ ~last.invoked)

\* C7: gmres called with M or A_kwargs supplied raises NotImplementedError,
\* whatever the other arguments are.
C7_UnsupportedRaisesNotImplemented ==
  (last.solver = "gmres"
   /\ (~IsNone(last.inp.M) \/ ~IsNone(last.inp.A_kwargs))) =>
    (last.outcome = "NotImplementedError" /\ ~last.invoked)

\* C8: a call that raises ValueError, NotImplementedError or TypeError
\* leaves both caches as they were, makes no wrapper and builds no routine,
\* and has not reached the iteration routine (which alone applies the
\* operator).
C8_RaiseLeavesCaches ==
  [][last'.outcome \in Errors =>
       /\ CACHED_MATVECS' = CACHED_MATVECS
       /\ CACHED_FUNCTIONS' = CACHED_FUNCTIONS
       /\ compiles' = compiles
       /\ built' = built
       /\ ~last'.invoked
       /\ IsNone(last'.call)]_vars

\* eigs raised TypeError for an operator that is not registered, in a
\* process whose caches are not empty.
C8_Witness ==
  /\ last.solver = "eigs" /\ last.outcome = "TypeError"
  /\ DOMAIN CACHED_MATVECS # {}
  /\ last.inp.A \notin DOMAIN CACHED_MATVECS

\* C9: a call of eigs, eigsh_lanczos or gmres whose initial vector or guess
\* is supplied and is not a jax array, and whose arguments are otherwise
\* valid (for gmres: x0 has b's shape and dtype), raises TypeError without
\* reaching the caches or the routine.
C9_NonArrayInitialRaisesTypeError ==
  /\ (/\ last.solver = "eigs"
      /\ ~IsNone(last.inp.initial_state)
      /\ ~isinstance_ndarray(last.inp.initial_state[1])
      /\ eigs_raises([last.inp EXCEPT !.initial_state = Some(Vec)]) = "ok")
       => (last.outcome = "TypeError" /\ ~last.invoked)
  /\ (/\ last.solver = "eigsh_lanczos"
      /\ ~IsNone(last.inp.initial_state)
      /\ ~isinstance_ndarray(last.inp.initial_state[1])
      /\ eigsh_lanczos_raises([last.inp EXCEPT !.initial_state = Some(Vec)])
           = "ok")
       => (last.outcome = "TypeError" /\ ~last.invoked)
  /\ (/\ last.solver = "gmres"
      /\ ~IsNone(last.inp.x0)
      /\ ~isinstance_ndarray(last.inp.x0[1])
      /\ last.inp.x0[1].shape = last.inp.b.shape
      /\ last.inp.x0[1].dtype = last.inp.b.dtype
      /\ gmres_raises([last.inp EXCEPT !.x0 = None]) = "ok")
       => (last.outcome = "TypeError" /\ ~last.invoked)

\* C10: gmres raises ValueError whenever a supplied x0 differs from b in
\* shape or in dtype; when x0 is omitted and the routine is reached, the x0
\* handed to it is a jax array of zeros of b's shape and b's dtype.
C10_X0MatchesB ==
  last.solver = "gmres" =>
    /\ (/\ ~IsNone(last.inp.x0)
        /\ \/ last.inp.x0[1].shape # last.inp.b.shape
           \/ last.inp.x0[1].dtype # last.inp.b.dtype)
         => last.outcome = "ValueError"
    /\ (IsNone(last.inp.x0) /\ last.invoked)
         => last.call[1].x0 =
              Tensor("jax", last.inp.b.shape, last.inp.b.dtype, "zeros")

\* gmres reached its routine for a float32 b with x0 omitted.
C10_Witness ==
  /\ last.solver = "gmres" /\ last.invoked
  /\ IsNone(last.inp.x0)
  /\ last.inp.b.dtype = "float32"
  /\ Size(last.inp.b.shape) > 0

\* C11: gmres raises ValueError whenever num_krylov_vectors, or size(b) taken
\* for an omitted one, is outside 0 < n <= size(b); a ValueError of a call
\* whose value is inside the range has another cause (x0, tol or atol); the
\* value handed to the routine is the supplied one or size(b), and is always
\* inside the range.
C11_KrylovRange ==
  last.solver = "gmres" =>
    LET inp == last.inp
        size == Size(inp.b.shape)
        n == IF IsNone(inp.num_krylov_vectors) THEN size
             ELSE inp.num_krylov_vectors[1]
        outside == n <= 0 \/ n > size
    IN /\ outside => last.outcome = "ValueError"
       /\ (~outside /\ last.outcome = "ValueError") =>
            \/ ~IsNone(inp.x0) /\ inp.x0[1].shape # inp.b.shape
            \/ ~IsNone(inp.x0) /\ inp.x0[1].dtype # inp.b.dtype
            \/ inp.tol < 0
            \/ ~IsNone(inp.atol) /\ inp.atol[1] < 0
       /\ last.invoked =>
            /\ last.call[1].num_krylov_vectors = n
            /\ 0 < last.call[1].num_krylov_vectors
            /\ last.call[1].num_krylov_vectors <= size

\* gmres reached its routine with num_krylov_vectors omitted.
C11_Witness ==
  /\ last.solver = "gmres" /\ last.invoked
  /\ IsNone(last.inp.num_krylov_vectors)
  /\ last.call[1].num_krylov_vectors = Size(last.inp.b.shape)

\* C12: gmres raises ValueError when tol is negative or a supplied atol is
\* negative; a ValueError of a call whose tol and atol are not negative has
\* another cause (x0 or num_krylov_vectors), so tol = 0 and atol = 0 are
\* accepted; the routine gets tol as given and atol as given or, when
\* omitted, tol, both non-negative.
C12_Tolerances ==
  last.solver = "gmres" =>
    LET inp == last.inp
        size == Size(inp.b.shape)
        n == IF IsNone(inp.num_krylov_vectors) THEN size
             ELSE inp.num_krylov_vectors[1]
        negative == inp.tol < 0 \/ (~IsNone(inp.atol) /\ inp.atol[1] < 0)
    IN /\ negative => last.outcome = "ValueError"
       /\ (~negative /\ last.outcome = "ValueError") =>
            \/ ~IsNone(inp.x0) /\ inp.x0[1].shape # inp.b.shape
            \/ ~IsNone(inp.x0) /\ inp.x0[1].dtype # inp.b.dtype
            \/ n <= 0 \/ n > size
       /\ last.invoked =>
            /\ last.call[1].tol = inp.tol
            /\ last.call[1].atol =
                 (IF IsNone(inp.atol) THEN inp.tol ELSE inp.atol[1])
            /\ last.call[1].tol >= 0 /\ last.call[1].atol >= 0

\* gmres reached its routine with atol omitted and a positive tol.
C12_Witness ==
  /\ last.solver = "gmres" /\ last.invoked
  /\ IsNone(last.inp.atol) /\ last.inp.tol > 0

\* C13: eigs and eigsh_lanczos raise ValueError whenever numeig exceeds
\* num_krylov_vecs; a ValueError of a call with numeig <= num_krylov_vecs
\* has another cause; the routine is only started with
\* num_krylov_vecs >= numeig.
C13_NumeigWithinKrylov ==
  last.solver \in {"eigs", "eigsh_lanczos"} =>
    LET inp == last.inp
        noshape == IsNone(inp.initial_state)
                   /\ (IsNone(inp.shape) \/ IsNone(inp.dtype))
    IN /\ inp.numeig > inp.num_krylov_vecs => last.outcome = "ValueError"
       /\ (inp.numeig <= inp.num_krylov_vecs /\ last.outcome = "ValueError")
            => IF last.solver = "eigs"
               THEN inp.which \in {"SI", "LI", "SM", "SR"} \/ noshape
               ELSE (inp.numeig > 1 /\ ~inp.reorthogonalize) \/ noshape
       /\ last.invoked =>
            /\ last.call[1].numeig = inp.numeig
            /\ last.call[1].num_krylov_vecs = inp.num_krylov_vecs
            /\ last.call[1].num_krylov_vecs >= last.call[1].numeig

\* eigs reached its routine with numeig = num_krylov_vecs > 1.
C13_Witness ==
  /\ last.solver = "eigs" /\ last.invoked
  /\ last.inp.numeig = last.inp.num_krylov_vecs
  /\ last.inp.numeig > 1

\* C14: eigsh_lanczos raises ValueError whenever numeig > 1 and
\* reorthogonalize is off; with numeig = 1 a ValueError has another cause,
\* whatever reorthogonalize is; the routine is never started with
\* numeig > 1 and reorthogonalize off.
C14_ReorthogonalizeForSeveral ==
  last.solver = "eigsh_lanczos" =>
    LET inp == last.inp IN
    /\ (inp.numeig > 1 /\ ~inp.reorthogonalize)
         => last.outcome = "ValueError"
    /\ (inp.numeig = 1 /\ last.outcome = "ValueError") =>
         \/ inp.num_krylov_vecs < inp.numeig
         \/ IsNone(inp.initial_state)
            /\ (IsNone(inp.shape) \/ IsNone(inp.dtype))
    /\ last.invoked =>
         /\ last.call[1].numeig = inp.numeig
         /\ last.call[1].reorthogonalize = inp.reorthogonalize
         /\ ~(last.call[1].numeig > 1 /\ ~last.call[1].reorthogonalize)

\* eigsh_lanczos reached its routine with numeig = 1 and reorthogonalize off.
C14_Witness ==
  /\ last.solver = "eigsh_lanczos" /\ last.invoked
  /\ last.inp.numeig = 1 /\ ~last.inp.reorthogonalize

\* C15: the routine is handed the stored wrapper of the operator, which
\* binds no argument, together with the argument list of the current call,
\* the empty list when none is given: on a hit as on a miss the operator
\* applied is v -> A(v, *args) with this call's args.
C15_ArgsOfCurrentCall ==
  last.invoked =>
    LET given == IF last.solver = "gmres" THEN last.inp.A_args
                 ELSE last.inp.args
    IN /\ last.call[1].args = (IF IsNone(given) THEN <<>> ELSE given[1])
       /\ last.call[1].matvec = CACHED_MATVECS[last.inp.A]
       /\ last.call[1].matvec.fn = last.inp.A
       /\ DOMAIN last.call[1].matvec = {"fn", "jitted", "serial"}

\* eigs was called with an argument list for an operator that an earlier
\* gmres call without arguments had registered, and reused that wrapper.
C15_Witness ==
  /\ last.solver = "eigs" /\ last.invoked
  /\ last.inp.args = Some(<<1>>)
  /\ ~last.call[1].matvec.jitted
  /\ last.call[1].args = <<1>>

\* C16: a call of eigsh_lanczos, made again from the same caches with any
\* other tol and ndiag, ends the same way (same error or same return),
\* leaves the same caches and hands the same arguments to the routine.
C16_TolNdiagInert ==
  [][last'.solver = "eigsh_lanczos" =>
       \A tol \in {0, 1}, ndiag \in {1, 10} :
         LET r == eigsh_lanczos_body(Caches,
                    [last'.inp EXCEPT !.tol = tol, !.ndiag = ndiag])
         IN /\ r.c.matvecs = CACHED_MATVECS'
            /\ r.c.functions = CACHED_FUNCTIONS'
            /\ r.c.compiles = compiles'
            /\ r.c.built = built'
            /\ r.last.outcome = last'.outcome
            /\ r.last.call = last'.call
            /\ r.last.ret = last'.ret]_vars

\* eigsh_lanczos reached its routine with a tol and an ndiag that are not
\* the smallest ones tried.
C16_Witness ==
  /\ last.solver = "eigsh_lanczos" /\ last.invoked
  /\ last.inp.tol = 1 /\ last.inp.ndiag = 1

\* C17: with threads taking the lines of their calls in any order, every
\* wrapper or routine that is built is written over whatever the cache holds
\* for its key, so the entry is always the latest one built, and a key can
\* be built more than once; as long as no call has overlapped another, a
\* key in a cache has been built exactly once.
C17_NoLocking ==
  [][/\ \A A \in Ops :
          compiles'[A] # compiles[A] =>
            /\ compiles'[A] = compiles[A] + 1
            /\ CACHED_MATVECS'[A].serial = compiles'[A]
     /\ \A n \in AlgNames :
          built'[n] # built[n] =>
            /\ built'[n] = built[n] + 1
            /\ CACHED_FUNCTIONS'[n].serial = built'[n]
     /\ \A A \in Ops : (A \in DOMAIN CACHED_MATVECS') = (compiles'[A] >= 1)
     /\ \A n \in AlgNames :
          (n \in DOMAIN CACHED_FUNCTIONS') = (built'[n] >= 1)
     /\ (\A t \in Threads : ~threads'[t].overlap) =>
          /\ \A A \in Ops : compiles'[A] <= 1
          /\ \A n \in AlgNames : built'[n] <= 1]_vars

\* Two calls with the same operator both saw it missing and both built a
\* wrapper; the cache holds the second.
C17_Witness ==
  /\ compiles[1] = 2
  /\ CACHED_MATVECS[1].serial = 2
  /\ \A t \in Threads : threads[t].pc = "done" => threads[t].overlap

\* C18: two calls of randn, or of random_uniform, with the same shape,
\* dtype and boundaries and the same seed given by the caller, 0 included,
\* return the same tensor; only a call without a seed draws one.
C18_SeedDeterminesTensor ==
  (Len(last.results) = 2 /\ ~IsNone(last.inp.seed)) =>
    last.results[1] = last.results[2]

\* The same holds of every seed that Python does not take for false.
C18_NonzeroSeedDeterminesTensor ==
  (Len(last.results) = 2 /\ ~IsNone(last.inp.seed) /\ last.inp.seed[1] # 0) =>
    last.results[1] = last.results[2]

====
